---- MODULE Spec2Model ----
(***************************************************************************)
(* Model of src/project/mod.rs: the Project facade over a loaded Manifest. *)
(* The dependency merge, the task registry, the activation resolver, the   *)
(* lazily initialised package database cell and project discovery.         *)
(*                                                                         *)
(* The queries (dependencies, tasks, activation scripts, discovery) take   *)
(* &self and change nothing: each is modelled as one step from a state     *)
(* with no query made (ret = NoCall) to a state holding what it returned,  *)
(* over every manifest, root, platform and filesystem within the bounds.   *)
(* pypi_package_db() is modelled step by step, for several threads.        *)
(***************************************************************************)
EXTENDS Naturals, Integers, Sequences, FiniteSets, TLC

VARIABLES
    manifest,   \* Project.manifest
    root,       \* Project.root
    current,    \* Platform::current()
    fsPaths,    \* the paths that exist on the filesystem
    ret,        \* the query made on the Project and what it returned
    queue,      \* Project.package_db: the OnceCell's state
    slot,       \* Project.package_db: the OnceCell's value, an Option
    pc,         \* where each thread is in pypi_package_db()
    result,     \* what each thread's last pypi_package_db() returned
    nextHandle, \* the Arc<PackageDb> allocated so far
    failures,   \* the initializer runs that failed so far
    cwd,        \* env::current_dir(), an Option
    entries,    \* what each directory holds under the manifest's name
    linkTarget, \* where a symlinked manifest points
    readable,   \* whether the manifest can be read and parsed
    instances,  \* the Project instances of the process, each with its cell
    ipc,        \* where each instance's caller is in pypi_package_db()
    ires        \* what each instance's last pypi_package_db() returned

project == <<manifest, root, current, fsPaths>>
dbVars == <<queue, slot, pc, result, nextHandle, failures>>
envVars == <<cwd, entries, linkTarget, readable>>
instVars == <<instances, ipc, ires>>
vars == <<project, ret, dbVars, envVars, instVars>>

(***************************************************************************)
(* Bounds of the model.                                                    *)
(***************************************************************************)
\* Largest number of entries in one dependency table.
MaxDeps == 2
\* Largest size of a manifest's dependency section (see TableWeight).
MaxEntries == 3
\* Largest size of a manifest's task section (see TaskWeight).
MaxTaskSize == 4
\* Largest size of a manifest's activation section (see ActivationWeight).
MaxScripts == 3
\* The threads calling pypi_package_db().
NumThreads == 3
\* The initializer runs that may fail.
MaxFailures == 2
\* The PackageDb handles that may be allocated.
MaxHandles == 2
\* The depth of the working directory below the filesystem root.
MaxDepth == 3
\* The Project instances living in the process.
MaxProjects == 3

(***************************************************************************)
(* Option<T>: None is the empty sequence, Some(x) the one-element sequence. *)
(***************************************************************************)
None == <<>>
Some(x) == <<x>>
IsSome(o) == Len(o) = 1
Unwrap(o) == o[1]

(***************************************************************************)
(* Platform and SpecType.                                                  *)
(***************************************************************************)
Platforms == {"linux-64", "win-64"}
Run == "Run"
Host == "Host"
Build == "Build"
SpecType == {Host, Build, Run}

PackageNames == {"foo", "bar"}
MatchSpecs == {"1.0", "2.0"}

(***************************************************************************)
(* Generic sequence helpers.                                               *)
(***************************************************************************)
RECURSIVE Rev(_)
Rev(s) == IF s = <<>> THEN <<>> ELSE Append(Rev(Tail(s)), Head(s))

RECURSIVE Flatten(_)
Flatten(ss) == IF ss = <<>> THEN <<>> ELSE Head(ss) \o Flatten(Tail(ss))

Range(s) == {s[i] : i \in 1..Len(s)}

(***************************************************************************)
(* IndexMap<PackageName, NamelessMatchSpec>: a sequence of entries with    *)
(* unique names, in insertion order.                                       *)
(***************************************************************************)
Entry(n, c) == [name |-> n, spec |-> c]

Keys(m) == {m[i].name : i \in 1..Len(m)}

\* IndexMap::insert as a remove-then-push: an existing key moves to the end.
InsertMoveToEnd(m, e) ==
    Append(SelectSeq(m, LAMBDA x : x.name # e.name), e)

\* IndexMap::insert: an existing key keeps its position and takes the new
\* value; a new key is appended.
IndexMapInsert(m, e) ==
    IF e.name \in Keys(m)
    THEN [i \in 1..Len(m) |-> IF m[i].name = e.name THEN e ELSE m[i]]
    ELSE Append(m, e)

\* IndexMap::extend, and FromIterator::collect, which is an extend of the
\* empty map: insert every pair of the iterator in turn.
RECURSIVE IndexMapExtend(_, _)
IndexMapExtend(m, es) ==
    IF es = <<>> THEN m
    ELSE IndexMapExtend(IndexMapInsert(m, Head(es)), Tail(es))

(***************************************************************************)
(* Targets::resolve(platform): the targets that apply, most specific first. *)
(* `targets` is [default |-> Target, targets |-> [subset of Platforms ->   *)
(* Target]].                                                               *)
(***************************************************************************)
Resolve(targets, platform) ==
    IF IsSome(platform) /\ Unwrap(platform) \in DOMAIN targets.targets
    THEN <<targets.targets[Unwrap(platform)], targets.default>>
    ELSE <<targets.default>>

DefaultFeatureTargets == manifest.targets

\* t.dependencies.get(&kind).into_iter().flatten()
KindEntries(t, kind) ==
    IF kind \in DOMAIN t.dependencies THEN t.dependencies[kind] ELSE <<>>

\* Project::dependencies folding every Target of the feature, whatever its
\* platform, instead of the resolved ones.
DependenciesAnyTarget(platform, kind) ==
    LET ov == DefaultFeatureTargets.targets
        ps == {q \in Platforms : q \in DOMAIN ov}
        F[S \in SUBSET ps] ==
            IF S = {} THEN KindEntries(DefaultFeatureTargets.default, kind)
            ELSE LET q == CHOOSE x \in S : TRUE
                 IN  F[S \ {q}] \o KindEntries(ov[q], kind)
    IN  IndexMapExtend(<<>>, F[ps])

\* Project::dependencies with the position-shuffling insert.
DependenciesMoveToEnd(platform, kind) ==
    LET ts == Rev(Resolve(DefaultFeatureTargets, Some(platform)))
        es == Flatten([i \in 1..Len(ts) |-> KindEntries(ts[i], kind)])
        F[i \in 0..Len(es)] ==
            IF i = 0 THEN <<>> ELSE InsertMoveToEnd(F[i-1], es[i])
    IN  F[Len(es)]

\* Project::dependencies
Dependencies(platform, kind) ==
    LET ts == Rev(Resolve(DefaultFeatureTargets, Some(platform)))
    IN  IndexMapExtend(<<>>,
            Flatten([i \in 1..Len(ts) |-> KindEntries(ts[i], kind)]))

\* Project::all_dependencies merging the kinds in the order Build, Host, Run.
AllDependenciesBuildFirst(platform) ==
    IndexMapExtend(
        IndexMapExtend(Dependencies(platform, Build),
                       Dependencies(platform, Host)),
        Dependencies(platform, Run))

\* Project::all_dependencies
AllDependencies(platform) ==
    IndexMapExtend(
        IndexMapExtend(Dependencies(platform, Run),
                       Dependencies(platform, Host)),
        Dependencies(platform, Build))

(***************************************************************************)
(* Project.package_db: OnceCell<Arc<PackageDb>> and pypi_package_db().     *)
(* The cell is INCOMPLETE, RUNNING (one thread runs an initializer) or     *)
(* COMPLETE (the slot holds the value).                                    *)
(***************************************************************************)
Threads == 1..NumThreads

Ok(h) == [ok |-> TRUE, handle |-> h]
Err(e) == [ok |-> FALSE, err |-> e]

InitErrors == {"could not determine default cache directory",
               "PackageDb::new failed"}

\* package_db: Default::default()
DbFresh ==
    /\ queue = "INCOMPLETE"
    /\ slot = None
    /\ pc = [t \in Threads |-> "idle"]
    /\ result = [t \in Threads |-> None]
    /\ nextHandle = 0
    /\ failures = 0

\* A cell whose initializer starts whenever the value is not there yet.
CanClaimUnguarded(q) == q # "COMPLETE"

\* get_or_try_init: a thread starts the initializer only from INCOMPLETE,
\* which it swaps for RUNNING.
CanClaim(q) == q = "INCOMPLETE"

\* A cell that keeps a failed initialization.
StateAfterFailurePoisoned == "POISONED"

\* get_or_try_init: a failed initializer leaves the cell INCOMPLETE.
StateAfterFailure == "INCOMPLETE"

\* pypi_package_db(), the entry: get_or_try_init's check for a value.
Call(t) ==
    /\ pc[t] = "idle"
    /\ IF queue = "COMPLETE"
       THEN /\ pc' = [pc EXCEPT ![t] = "done"]
            /\ result' = [result EXCEPT ![t] = Some(Ok(Unwrap(slot)))]
       ELSE /\ pc' = [pc EXCEPT ![t] = "initialize"]
            /\ result' = [result EXCEPT ![t] = None]
    /\ UNCHANGED <<queue, slot, nextHandle, failures, project, ret, envVars, instVars>>

\* get_or_try_init: the value arrived in the meantime.
InitializeComplete(t) ==
    /\ pc[t] = "initialize"
    /\ queue = "COMPLETE"
    /\ pc' = [pc EXCEPT ![t] = "done"]
    /\ result' = [result EXCEPT ![t] = Some(Ok(Unwrap(slot)))]
    /\ UNCHANGED <<queue, slot, nextHandle, failures, project, ret, envVars, instVars>>

\* get_or_try_init: this thread is the one to run its initializer.
InitializeClaim(t) ==
    /\ pc[t] = "initialize"
    /\ queue # "COMPLETE"
    /\ CanClaim(queue)
    /\ queue' = "RUNNING"
    /\ pc' = [pc EXCEPT ![t] = "running"]
    /\ UNCHANGED <<slot, result, nextHandle, failures, project, ret, envVars, instVars>>

\* get_or_try_init: another thread runs an initializer; block.
InitializeWait(t) ==
    /\ pc[t] = "initialize"
    /\ queue # "COMPLETE"
    /\ ~CanClaim(queue)
    /\ pc' = [pc EXCEPT ![t] = "waiting"]
    /\ UNCHANGED <<queue, slot, result, nextHandle, failures, project, ret,
                   envVars, instVars>>

\* get_or_try_init: the running thread is through; look at the cell again.
Wake(t) ==
    /\ pc[t] = "waiting"
    /\ queue # "RUNNING"
    /\ pc' = [pc EXCEPT ![t] = "initialize"]
    /\ UNCHANGED <<queue, slot, result, nextHandle, failures, project, ret,
                   envVars, instVars>>

\* The initializer succeeds: PackageDb::new(..).map(Arc::new) is stored and
\* returned.
InitOk(t) ==
    /\ pc[t] = "running"
    /\ nextHandle < MaxHandles
    /\ nextHandle' = nextHandle + 1
    /\ slot' = Some(nextHandle + 1)
    /\ queue' = "COMPLETE"
    /\ pc' = [pc EXCEPT ![t] = "done"]
    /\ result' = [result EXCEPT ![t] = Some(Ok(nextHandle + 1))]
    /\ UNCHANGED <<failures, project, ret, envVars, instVars>>

\* The initializer fails, on the cache directory or in PackageDb::new: the
\* error goes to this caller through `?`.
InitErr(t) ==
    /\ pc[t] = "running"
    /\ failures < MaxFailures
    /\ \E e \in InitErrors :
          result' = [result EXCEPT ![t] = Some(Err(e))]
    /\ failures' = failures + 1
    /\ queue' = StateAfterFailure
    /\ pc' = [pc EXCEPT ![t] = "done"]
    /\ UNCHANGED <<slot, nextHandle, project, ret, envVars, instVars>>

\* pypi_package_db() has returned; the thread may call again.
Return(t) ==
    /\ pc[t] = "done"
    /\ pc' = [pc EXCEPT ![t] = "idle"]
    /\ UNCHANGED <<queue, slot, result, nextHandle, failures, project, ret,
                   envVars, instVars>>

(***************************************************************************)
(* Several Project instances in one process.  Each has its own package_db  *)
(* cell: its state, its value, how the instance was obtained, and whether  *)
(* its value was copied from the Project it was cloned from.               *)
(***************************************************************************)
ProjectIds == 1..MaxProjects

\* One PackageDb for the whole process, handed to every Project.
ProcessWideHandle(n) == 1

\* PackageDb::new(..).map(Arc::new): a PackageDb no other Project holds.
NewHandle(n) == n + 1

\* package_db: Default::default(), in from_manifest and in load.
NewCell(origin) ==
    [queue |-> "INCOMPLETE", slot |-> None, origin |-> origin,
     inherited |-> FALSE]

\* #[derive(Clone)]: OnceCell::clone is a cell holding a clone of the value
\* when there is one, an empty cell otherwise; cloning an Arc<PackageDb>
\* yields the same PackageDb.
ClonedCell(c) ==
    IF c.queue = "COMPLETE"
    THEN [queue |-> "COMPLETE", slot |-> c.slot, origin |-> "clone",
          inherited |-> TRUE]
    ELSE [queue |-> "INCOMPLETE", slot |-> None, origin |-> "clone",
          inherited |-> FALSE]

\* The process holds the one Project the other specifications are about.
OneInstance ==
    /\ instances = (1 :> NewCell("from_manifest"))
    /\ ipc = (1 :> "idle")
    /\ ires = (1 :> None)

NextId == Cardinality(DOMAIN instances) + 1

\* Project::from_manifest, or Project::load / discover: one more Project.
Construct(origin) ==
    /\ NextId \in ProjectIds
    /\ instances' = (NextId :> NewCell(origin)) @@ instances
    /\ ipc' = (NextId :> "idle") @@ ipc
    /\ ires' = (NextId :> None) @@ ires
    /\ UNCHANGED <<project, ret, dbVars, envVars>>

\* Project::clone of instance i.
CloneProject(i) ==
    /\ NextId \in ProjectIds
    /\ instances' = (NextId :> ClonedCell(instances[i])) @@ instances
    /\ ipc' = (NextId :> "idle") @@ ipc
    /\ ires' = (NextId :> None) @@ ires
    /\ UNCHANGED <<project, ret, dbVars, envVars>>

\* pypi_package_db() on instance i: the value is there.
InstanceCallCached(i) ==
    /\ ipc[i] = "idle"
    /\ instances[i].queue = "COMPLETE"
    /\ ipc' = [ipc EXCEPT ![i] = "done"]
    /\ ires' = [ires EXCEPT ![i] = Some([ok |-> TRUE,
                                          handle |-> Unwrap(instances[i].slot)])]
    /\ UNCHANGED <<instances, project, ret, dbVars, envVars>>

\* pypi_package_db() on instance i: the caller starts the initializer.
InstanceCallClaim(i) ==
    /\ ipc[i] = "idle"
    /\ instances[i].queue = "INCOMPLETE"
    /\ instances' = [instances EXCEPT ![i].queue = "RUNNING"]
    /\ ipc' = [ipc EXCEPT ![i] = "running"]
    /\ ires' = [ires EXCEPT ![i] = None]
    /\ UNCHANGED <<project, ret, dbVars, envVars>>

\* The initializer of instance i succeeds: a new Arc<PackageDb> is stored in
\* that instance's cell and returned.
InstanceInitOk(i) ==
    /\ ipc[i] = "running"
    /\ nextHandle < MaxHandles
    /\ nextHandle' = nextHandle + 1
    /\ instances' = [instances EXCEPT ![i].queue = "COMPLETE",
                                      ![i].slot = Some(NewHandle(nextHandle))]
    /\ ipc' = [ipc EXCEPT ![i] = "done"]
    /\ ires' = [ires EXCEPT ![i] = Some([ok |-> TRUE,
                                          handle |-> NewHandle(nextHandle)])]
    /\ UNCHANGED <<queue, slot, pc, result, failures, project, ret, envVars>>

\* The initializer of instance i fails, in default_cache_dir or in
\* PackageDb::new: that error is returned and the cell stays empty.
InstanceInitErr(i) ==
    /\ ipc[i] = "running"
    /\ failures < MaxFailures
    /\ failures' = failures + 1
    /\ instances' = [instances EXCEPT ![i].queue = StateAfterFailure]
    /\ ipc' = [ipc EXCEPT ![i] = "done"]
    /\ \E e \in InitErrors :
          ires' = [ires EXCEPT ![i] = Some(Err(e))]
    /\ UNCHANGED <<queue, slot, pc, result, nextHandle, project, ret, envVars>>

\* pypi_package_db() on instance i has returned.
InstanceReturn(i) ==
    /\ ipc[i] = "done"
    /\ ipc' = [ipc EXCEPT ![i] = "idle"]
    /\ UNCHANGED <<instances, ires, project, ret, dbVars, envVars>>

NoCall == [op |-> "none"]
HostPlatform == "linux-64"
EmptyRoot == <<>>
NoTables == [k \in {} |-> <<>>]

\* A Target declaring nothing, and the Manifest holding only that.
EmptyTarget == [dependencies |-> NoTables, tasks |-> None, activation |-> None]
EmptyManifest ==
    [targets |-> [default |-> EmptyTarget,
                  targets |-> [p \in {} |-> EmptyTarget]]]

\* No discovery is under way: the environment is not looked at.
NoDiscovery ==
    /\ cwd = None
    /\ entries = [d \in {} |-> "missing"]
    /\ linkTarget = <<>>
    /\ readable = TRUE

InitDb ==
    /\ manifest = EmptyManifest
    /\ root = EmptyRoot
    /\ current = HostPlatform
    /\ fsPaths = {}
    /\ ret = NoCall
    /\ DbFresh
    /\ OneInstance
    /\ NoDiscovery

NextDb ==
    \E t \in Threads :
        \/ Call(t)
        \/ InitializeComplete(t)
        \/ InitializeClaim(t)
        \/ InitializeWait(t)
        \/ Wake(t)
        \/ InitOk(t)
        \/ InitErr(t)
        \/ Return(t)

SpecDb == InitDb /\ [][NextDb]_vars

\* Several Projects: built, cloned and asked for their package database in
\* any order.
NextInstances ==
    \/ Construct("from_manifest")
    \/ Construct("load")
    \/ \E i \in DOMAIN instances :
          \/ CloneProject(i)
          \/ InstanceCallCached(i)
          \/ InstanceCallClaim(i)
          \/ InstanceInitOk(i)
          \/ InstanceInitErr(i)
          \/ InstanceReturn(i)

SpecInstances == InitDb /\ [][NextInstances]_vars

(***************************************************************************)
(* The manifests the model is run on.                                      *)
(***************************************************************************)
\* Every dependency table (unique names, in order) of exactly n entries.
RECURSIVE TablesOfLen(_)
TablesOfLen(n) ==
    IF n = 0 THEN {<<>>}
    ELSE UNION {{Append(m, Entry(nm, c)) :
                    nm \in PackageNames \ Keys(m), c \in MatchSpecs} :
                m \in TablesOfLen(n - 1)}

Tables == UNION {TablesOfLen(n) : n \in 0..MaxDeps}

\* The size of a declared table: its entries, an empty table counting one.
TableWeight(t) == IF Len(t) = 0 THEN 1 ELSE Len(t)

KindSeq == <<Run, Host, Build>>
PlatformSeq == <<"linux-64", "win-64">>

\* Every HashMap<SpecType, IndexMap> over the kinds ks of size at most b.
RECURSIVE DepsWithin(_, _)
DepsWithin(ks, b) ==
    IF ks = <<>> THEN {NoTables}
    ELSE DepsWithin(Tail(ks), b)
         \cup UNION {{(Head(ks) :> t) @@ d :
                        d \in DepsWithin(Tail(ks), b - TableWeight(t))} :
                     t \in {x \in Tables : TableWeight(x) <= b}}

RECURSIVE DepsWeightOver(_, _)
DepsWeightOver(ks, d) ==
    IF ks = <<>> THEN 0
    ELSE (IF Head(ks) \in DOMAIN d THEN TableWeight(d[Head(ks)]) ELSE 0)
         + DepsWeightOver(Tail(ks), d)

DepsWeight(d) == DepsWeightOver(KindSeq, d)

\* A Target holding only dependency tables.
DepsTarget(d) == [dependencies |-> d, tasks |-> None, activation |-> None]

\* An override Target counts at least one, also when it declares no table.
OverrideWeight(d) == IF DepsWeight(d) = 0 THEN 1 ELSE DepsWeight(d)

\* DepsOfSize[b]: every dependency section of size at most b.
DepsOfSize == [b \in 0..MaxEntries |-> DepsWithin(KindSeq, b)]

\* The choices for one platform's override Target within size b: none, or a
\* Target with a dependency section of size at most b.
OverrideChoices(b) ==
    {None} \cup {Some(DepsTarget(d)) :
                    d \in {x \in DepsOfSize[b] : OverrideWeight(x) <= b}}

ChoiceWeight(o) ==
    IF IsSome(o) THEN OverrideWeight(Unwrap(o).dependencies) ELSE 0

\* The map Platform -> Target of the overrides chosen, in PlatformSeq's order.
OverrideMap(os) ==
    [p \in {PlatformSeq[i] : i \in {j \in 1..Len(os) : IsSome(os[j])}} |->
        Unwrap(os[CHOOSE i \in 1..Len(os) : PlatformSeq[i] = p])]

Manifest(default, os) ==
    [targets |-> [default |-> default, targets |-> OverrideMap(os)]]


(***************************************************************************)
(* The dependency queries on a Project built by Project::from_manifest.    *)
(***************************************************************************)
InitDeps ==
    /\ \E d \in DepsOfSize[MaxEntries] :
       \E o1 \in OverrideChoices(MaxEntries - DepsWeight(d)) :
       \E o2 \in OverrideChoices(MaxEntries - DepsWeight(d) - ChoiceWeight(o1)) :
            manifest = Manifest(DepsTarget(d), <<o1, o2>>)
    /\ root = EmptyRoot
    /\ current = HostPlatform
    /\ fsPaths = {}
    /\ ret = NoCall
    /\ DbFresh
    /\ OneInstance
    /\ NoDiscovery

\* The queries take &self and change nothing, so a behaviour is one query on
\* a freshly built Project: ret = NoCall until it has been made.
CallDependencies ==
    \E p \in Platforms, k \in SpecType :
        /\ ret = NoCall
        /\ ret' = [op |-> "dependencies", platform |-> p, kind |-> k,
                   value |-> Dependencies(p, k)]
        /\ UNCHANGED <<project, dbVars, envVars, instVars>>

CallAllDependencies ==
    \E p \in Platforms :
        /\ ret = NoCall
        /\ ret' = [op |-> "all_dependencies", platform |-> p,
                   value |-> AllDependencies(p)]
        /\ UNCHANGED <<project, dbVars, envVars, instVars>>

NextDeps == CallDependencies \/ CallAllDependencies

SpecDeps == InitDeps /\ [][NextDeps]_vars


(***************************************************************************)
(* Tasks.  A Task is its command and the names of the tasks it depends on; *)
(* a Target's tasks are an Option of a map from task name to Task.         *)
(***************************************************************************)
TaskNameSeq == <<"build", "test", "lint">>
TaskNames == Range(TaskNameSeq)
Cmds == {"cargo", "make"}

Task(c, ds) == [cmd |-> c, depends_on |-> ds]

NoTasks == [n \in {} |-> Task("cargo", <<>>)]

\* target.tasks as a map, empty when the Target declares no task table.
TasksOf(t) == IF IsSome(t.tasks) THEN Unwrap(t.tasks) ELSE NoTasks

\* Manifest::tasks(platform): over the resolved Targets, most specific first,
\* the first definition of each task name.
RECURSIVE FirstDefinitions(_)
FirstDefinitions(ts) ==
    IF ts = <<>> THEN NoTasks
    ELSE TasksOf(Head(ts)) @@ FirstDefinitions(Tail(ts))

ManifestTasks(platform) ==
    FirstDefinitions(Resolve(DefaultFeatureTargets, platform))

\* Project::tasks dropping its platform argument.
TasksIgnoringPlatform(platform) == ManifestTasks(None)

\* Project::tasks
Tasks(platform) == ManifestTasks(platform)

\* Project::task_names_depending_on without taking `name` out of the map.
DependingOnKeepingSelf(name) ==
    LET tasks == ManifestTasks(Some(current))
    IN  IF name \in DOMAIN tasks
        THEN {n \in DOMAIN tasks : name \in Range(tasks[n].depends_on)}
        ELSE {}

\* Project::task_names_depending_on: the names the returned Vec holds.
DependingOn(name) ==
    LET tasks == ManifestTasks(Some(current))
        removed == [n \in DOMAIN tasks \ {name} |-> tasks[n]]
    IN  IF name \in DOMAIN tasks
        THEN {n \in DOMAIN removed : name \in Range(removed[n].depends_on)}
        ELSE {}

\* The orders in which a HashMap may yield the names S.
Orderings(S) ==
    {v \in [1..Cardinality(S) -> S] : Range(v) = S}

(***************************************************************************)
(* The manifests of the task queries.                                      *)
(***************************************************************************)
RECURSIVE SeqsOfLen(_, _)
SeqsOfLen(S, n) ==
    IF n = 0 THEN {<<>>}
    ELSE {Append(q, x) : q \in SeqsOfLen(S, n - 1), x \in S}

\* The size of a task definition: one, and one per dependency it names.
TaskWeight(t) == 1 + Len(t.depends_on)

\* Every Task of size at most b.
TasksOfSize(b) ==
    UNION {{Task(c, ds) : c \in Cmds, ds \in SeqsOfLen(TaskNames, n)} :
            n \in 0..(IF b >= 1 THEN b - 1 ELSE -1)}

\* Every task map over the names ns of size at most b.
RECURSIVE TaskMapsWithin(_, _)
TaskMapsWithin(ns, b) ==
    IF ns = <<>> THEN {NoTasks}
    ELSE TaskMapsWithin(Tail(ns), b)
         \cup UNION {{(Head(ns) :> t) @@ m :
                        m \in TaskMapsWithin(Tail(ns), b - TaskWeight(t))} :
                     t \in TasksOfSize(b)}

RECURSIVE TaskMapWeightOver(_, _)
TaskMapWeightOver(ns, m) ==
    IF ns = <<>> THEN 0
    ELSE (IF Head(ns) \in DOMAIN m THEN TaskWeight(m[Head(ns)]) ELSE 0)
         + TaskMapWeightOver(Tail(ns), m)

\* The size of an Option of a task map: an empty table counts one.
TaskTableWeight(o) ==
    IF ~IsSome(o) THEN 0
    ELSE IF DOMAIN Unwrap(o) = {} THEN 1
         ELSE TaskMapWeightOver(TaskNameSeq, Unwrap(o))

\* TaskTablesOfSize[b]: every Option of a task map of size at most b.
TaskTablesOfSize ==
    [b \in 0..MaxTaskSize |->
        {None} \cup {o \in {Some(m) : m \in TaskMapsWithin(TaskNameSeq, b)} :
                        TaskTableWeight(o) <= b}]

\* A Target holding only tasks.
TaskTarget(o) == [dependencies |-> NoTables, tasks |-> o, activation |-> None]

TaskOverrideWeight(o) ==
    IF TaskTableWeight(o) = 0 THEN 1 ELSE TaskTableWeight(o)

TaskOverrideChoices(b) ==
    {None} \cup {Some(TaskTarget(o)) :
                    o \in {x \in TaskTablesOfSize[IF b >= 0 THEN b ELSE 0] :
                             TaskOverrideWeight(x) <= b}}

TaskChoiceWeight(o) ==
    IF IsSome(o) THEN TaskOverrideWeight(Unwrap(o).tasks) ELSE 0

(***************************************************************************)
(* The task queries on a Project built by Project::from_manifest.          *)
(***************************************************************************)
InitTasks ==
    /\ \E d \in TaskTablesOfSize[MaxTaskSize] :
       \E o1 \in TaskOverrideChoices(MaxTaskSize - TaskTableWeight(d)) :
       \E o2 \in TaskOverrideChoices(MaxTaskSize - TaskTableWeight(d)
                                        - TaskChoiceWeight(o1)) :
            manifest = Manifest(TaskTarget(d), <<o1, o2>>)
    /\ root = EmptyRoot
    /\ current \in Platforms
    /\ fsPaths = {}
    /\ ret = NoCall
    /\ DbFresh
    /\ OneInstance
    /\ NoDiscovery

CallTasks ==
    \E platform \in {None} \cup {Some(p) : p \in Platforms} :
        /\ ret = NoCall
        /\ ret' = [op |-> "tasks", platform |-> platform,
                   value |-> Tasks(platform)]
        /\ UNCHANGED <<project, dbVars, envVars, instVars>>

CallTaskNamesDependingOn ==
    \E name \in TaskNames :
    \E v \in Orderings(DependingOn(name)) :
        /\ ret = NoCall
        /\ ret' = [op |-> "task_names_depending_on", name |-> name,
                   value |-> v]
        /\ UNCHANGED <<project, dbVars, envVars, instVars>>

NextTasks == CallTasks \/ CallTaskNamesDependingOn

SpecTasks == InitTasks /\ [][NextTasks]_vars

(***************************************************************************)
(* Paths: a sequence of components, absolute when the first is "/".        *)
(***************************************************************************)
IsAbsolute(path) == path # <<>> /\ path[1] = "/"

\* Path::join: an absolute argument replaces the base.
Join(base, path) == IF IsAbsolute(path) THEN path ELSE base \o path

\* Path::exists
Exists(path) == path \in fsPaths

(***************************************************************************)
(* Activation.  A Target's activation is an Option of a block whose        *)
(* scripts are an Option of a list of script paths.                        *)
(***************************************************************************)
Activation(scripts) == [scripts |-> scripts]

\* activation.scripts.iter().flatten()
ScriptsOf(activation) ==
    IF IsSome(activation.scripts) THEN Unwrap(activation.scripts) ELSE <<>>

\* resolve(..).filter_map(|target| target.activation.as_ref())
RECURSIVE ActivationsOf(_)
ActivationsOf(ts) ==
    IF ts = <<>> THEN <<>>
    ELSE Head(ts).activation \o ActivationsOf(Tail(ts))

\* Iterator::next
First(q) == IF q = <<>> THEN None ELSE Some(Head(q))

\* The selection of the scripts taking every resolved Target's block.
AllScriptsMerged(platform) ==
    LET as == ActivationsOf(Resolve(DefaultFeatureTargets, Some(platform)))
    IN  Flatten([i \in 1..Len(as) |-> ScriptsOf(as[i])])

\* Project::activation_scripts, the scripts of the most specific block.
AllScripts(platform) ==
    LET activation ==
            First(ActivationsOf(Resolve(DefaultFeatureTargets, Some(platform))))
    IN  Flatten([i \in 1..Len(activation) |-> ScriptsOf(activation[i])])

\* The existence check failing the call on a missing script.
CheckScriptsFailing(all_scripts) ==
    LET paths == [i \in 1..Len(all_scripts) |-> Join(root, all_scripts[i])]
        missing == SelectSeq(all_scripts, LAMBDA n : ~Exists(Join(root, n)))
    IN  IF missing # <<>>
        THEN [ok |-> FALSE, value |-> <<>>, missing |-> missing]
        ELSE [ok |-> TRUE, value |-> paths, missing |-> missing]

\* Project::activation_scripts, the existence check: the joined paths that
\* exist, the names of the missing ones for the warning, and Ok.
CheckScripts(all_scripts) ==
    LET paths == [i \in 1..Len(all_scripts) |-> Join(root, all_scripts[i])]
    IN  [ok |-> TRUE,
         value |-> SelectSeq(paths, Exists),
         missing |-> SelectSeq(all_scripts, LAMBDA n : ~Exists(Join(root, n)))]

\* Project::activation_scripts
ActivationScripts(platform) == CheckScripts(AllScripts(platform))

(***************************************************************************)
(* The manifests, roots and filesystems of the activation query.           *)
(***************************************************************************)
ScriptNames == {<<"env.sh">>, <<"hooks", "setup.sh">>, <<"/", "opt", "act.sh">>}
Roots == {EmptyRoot, <<"/", "proj">>}

ActivationWeight(o) ==
    IF ~IsSome(o) THEN 0
    ELSE IF Len(ScriptsOf(Unwrap(o))) = 0 THEN 1
         ELSE Len(ScriptsOf(Unwrap(o)))

\* Every Option of an activation block of size at most b.
ActivationsOfSize(b) ==
    {None}
    \cup (IF b >= 1 THEN {Some(Activation(None))} ELSE {})
    \cup UNION {{Some(Activation(Some(q))) : q \in SeqsOfLen(ScriptNames, n)} :
                n \in {k \in 0..b : b >= 1}}

\* A Target holding only an activation block.
ActivationTarget(o) ==
    [dependencies |-> NoTables, tasks |-> None, activation |-> o]

ActivationOverrideWeight(o) ==
    IF ActivationWeight(o) = 0 THEN 1 ELSE ActivationWeight(o)

ActivationOverrideChoices(b) ==
    {None} \cup {Some(ActivationTarget(o)) :
                    o \in {x \in ActivationsOfSize(b) :
                             ActivationOverrideWeight(x) <= b}}

ActivationChoiceWeight(o) ==
    IF IsSome(o) THEN ActivationOverrideWeight(Unwrap(o).activation) ELSE 0

(***************************************************************************)
(* The activation query on a Project with some root, on some filesystem.   *)
(***************************************************************************)
InitActivation ==
    /\ \E d \in ActivationsOfSize(MaxScripts) :
       \E o1 \in ActivationOverrideChoices(MaxScripts - ActivationWeight(d)) :
       \E o2 \in ActivationOverrideChoices(MaxScripts - ActivationWeight(d)
                                              - ActivationChoiceWeight(o1)) :
            manifest = Manifest(ActivationTarget(d), <<o1, o2>>)
    /\ root \in Roots
    /\ current = HostPlatform
    /\ fsPaths \in SUBSET {Join(root, n) : n \in ScriptNames}
    /\ ret = NoCall
    /\ DbFresh
    /\ OneInstance
    /\ NoDiscovery

CallActivationScripts ==
    \E p \in Platforms :
        /\ ret = NoCall
        /\ ret' = [op |-> "activation_scripts", platform |-> p,
                   result |-> ActivationScripts(p)]
        /\ UNCHANGED <<project, dbVars, envVars, instVars>>

NextActivation == CallActivationScripts

SpecActivation == InitActivation /\ [][NextActivation]_vars

(***************************************************************************)
(* Discovery: find_project_root(), Project::discover(), Project::load().   *)
(* entries[d] is what directory d holds under the manifest's name: nothing, *)
(* a regular file, a directory, or a symlink to the file at linkTarget.    *)
(***************************************************************************)
PROJECT_MANIFEST == "pixi.toml"

FsRoot == <<"/">>

\* Path::parent: None for the filesystem root.
Parent(path) ==
    IF Len(path) <= 1 THEN None ELSE Some(SubSeq(path, 1, Len(path) - 1))

\* Path::file_name
FileName(path) == IF Len(path) <= 1 THEN None ELSE Some(path[Len(path)])

\* std::iter::successors(Some(dir), |prev| prev.parent())
RECURSIVE Successors(_)
Successors(dir) ==
    <<dir>> \o (IF IsSome(Parent(dir)) THEN Successors(Unwrap(Parent(dir)))
                ELSE <<>>)

\* What the filesystem holds at `path`.
KindAt(path) ==
    IF path = linkTarget THEN "file"
    ELSE IF IsSome(Parent(path)) /\ FileName(path) = Some(PROJECT_MANIFEST)
            /\ Unwrap(Parent(path)) \in DOMAIN entries
         THEN entries[Unwrap(Parent(path))]
         ELSE "missing"

\* Path::exists in the place of Path::is_file.
IsFileOrDirectory(path) == KindAt(path) # "missing"

\* Path::is_file, which follows symlinks.
IsFile(path) == KindAt(path) \in {"file", "link"}

\* find_project_root
FindProjectRoot ==
    IF ~IsSome(cwd) THEN None
    ELSE First(SelectSeq(Successors(Unwrap(cwd)),
                         LAMBDA dir : IsFile(Join(dir, <<PROJECT_MANIFEST>>))))

\* dunce::canonicalize: the path with its symlink resolved, None on error.
Canonicalize(path) ==
    CASE KindAt(path) = "missing" -> None
      [] KindAt(path) = "link" -> Some(linkTarget)
      [] OTHER -> Some(path)

\* fs::read_to_string and Manifest::from_str succeed.
ReadsAndParses(path) == KindAt(path) \in {"file", "link"} /\ readable

\* Project::load
Load(manifest_path) ==
    LET full_path == Canonicalize(manifest_path)
    IN  IF ~IsSome(full_path) THEN Err("canonicalize")
        ELSE IF FileName(Unwrap(full_path)) # Some(PROJECT_MANIFEST)
        THEN Err("the manifest-path must point to a pixi.toml file")
        ELSE IF ~IsSome(Parent(Unwrap(full_path)))
        THEN Err("can not find parent")
        ELSE IF ~ReadsAndParses(manifest_path)
        THEN Err("failed to parse pixi.toml")
        ELSE [ok |-> TRUE,
              root |-> Unwrap(Parent(Unwrap(full_path))),
              manifest_path |-> manifest_path]

\* Project::discover
Discover ==
    IF IsSome(FindProjectRoot)
    THEN Load(Join(Unwrap(FindProjectRoot), <<PROJECT_MANIFEST>>))
    ELSE Err("could not find pixi.toml")

DirNames == {"ws", "pkg"}
EntryKinds == {"missing", "file", "directory", "link"}
LinkTargets == {<<"/", "store", PROJECT_MANIFEST>>, <<"/", "store", "alt.toml">>}

\* The directories at most MaxDepth below the filesystem root.
WorkingDirs ==
    UNION {{FsRoot \o q : q \in SeqsOfLen(DirNames, n)} : n \in 0..MaxDepth}

\* No Project exists yet; the working directory and the filesystem are any.
InitDiscover ==
    /\ manifest = EmptyManifest
    /\ root = EmptyRoot
    /\ current = HostPlatform
    /\ fsPaths = {}
    /\ ret = NoCall
    /\ DbFresh
    /\ OneInstance
    /\ cwd \in {None} \cup {Some(d) : d \in WorkingDirs}
    /\ entries \in [(IF IsSome(cwd) THEN Range(Successors(Unwrap(cwd))) ELSE {})
                        -> EntryKinds]
    /\ linkTarget \in LinkTargets
    /\ readable \in BOOLEAN

CallFindProjectRoot ==
    /\ ret = NoCall
    /\ ret' = [op |-> "find_project_root", value |-> FindProjectRoot]
    /\ UNCHANGED <<project, dbVars, envVars, instVars>>

CallDiscover ==
    /\ ret = NoCall
    /\ ret' = [op |-> "discover", result |-> Discover]
    /\ UNCHANGED <<project, dbVars, envVars, instVars>>

NextDiscover == CallFindProjectRoot \/ CallDiscover

SpecDiscover == InitDiscover /\ [][NextDiscover]_vars

(***************************************************************************)
(* Properties of the dependency merge.                                     *)
(***************************************************************************)
DefaultTarget == manifest.targets.default
Overrides == manifest.targets.targets

\* The position of name n in the map m (n is a key of m).
IndexOfName(m, n) == CHOOSE i \in 1..Len(m) : m[i].name = n
\* The constraint map m holds for name n (n is a key of m).
SpecOf(m, n) == m[IndexOfName(m, n)].spec
CountOfName(m, n) == Cardinality({i \in 1..Len(m) : m[i].name = n})
NamesOf(m) == [i \in 1..Len(m) |-> m[i].name]
RECURSIVE Without(_, _)
Without(m, S) ==
    IF m = <<>> THEN <<>>
    ELSE IF Head(m).name \in S THEN Without(Tail(m), S)
         ELSE <<Head(m)>> \o Without(Tail(m), S)

\* C1 (position stability): for a platform with an override Target, a name
\* in both the default k-map and the override k-map has exactly one entry in
\* dependencies(p, k), at its position in the default k-map and with the
\* override's constraint; the names only in the override follow all names
\* of the default layer, in the override's own order.
C1_PositionStability ==
    (ret.op = "dependencies" /\ ret.platform \in DOMAIN Overrides) =>
        LET d == KindEntries(DefaultTarget, ret.kind)
            o == KindEntries(Overrides[ret.platform], ret.kind)
            v == ret.value
        IN  /\ \A n \in Keys(d) \cap Keys(o) :
                /\ CountOfName(v, n) = 1
                /\ IndexOfName(v, n) = IndexOfName(d, n)
                /\ SpecOf(v, n) = SpecOf(o, n)
            /\ Len(v) >= Len(d)
            /\ NamesOf(SubSeq(v, 1, Len(d))) = NamesOf(d)
            /\ SubSeq(v, Len(d) + 1, Len(v)) = Without(o, Keys(d))

\* C1's case: the override lists a new name and then a name of the default
\* layer with another constraint.
C1_Witness ==
    /\ ret.op = "dependencies"
    /\ ret.platform \in DOMAIN Overrides
    /\ LET d == KindEntries(DefaultTarget, ret.kind)
           o == KindEntries(Overrides[ret.platform], ret.kind)
       IN  /\ Len(o) = 2
           /\ o[1].name \notin Keys(d)
           /\ o[2].name \in Keys(d)
           /\ SpecOf(d, o[2].name) # o[2].spec
           /\ Len(ret.value) = 2

\* C8 (no-override fallback): for a platform without an override Target,
\* dependencies(p, k) is the default Target's k-map exactly (keys, order and
\* values; empty when the default has no k-map), whatever the override
\* Targets of the other platforms hold.
C8_NoOverrideFallback ==
    (ret.op = "dependencies" /\ ret.platform \notin DOMAIN Overrides) =>
        ret.value = (IF ret.kind \in DOMAIN DefaultTarget.dependencies
                     THEN DefaultTarget.dependencies[ret.kind]
                     ELSE <<>>)

\* C8's case: the platform asked for has no override, another platform has
\* one whose k-map differs from the default's two-entry k-map.
C8_Witness ==
    /\ ret.op = "dependencies"
    /\ ret.platform \notin DOMAIN Overrides
    /\ Len(KindEntries(DefaultTarget, ret.kind)) = 2
    /\ \E q \in DOMAIN Overrides :
          \E n \in Keys(KindEntries(Overrides[q], ret.kind))
                    \cap Keys(KindEntries(DefaultTarget, ret.kind)) :
              SpecOf(KindEntries(Overrides[q], ret.kind), n)
                # SpecOf(KindEntries(DefaultTarget, ret.kind), n)
    /\ ret.value = KindEntries(DefaultTarget, ret.kind)

\* The highest-precedence kind (Build over Host over Run) whose map holds n.
WinningSpec(r, h, b, n) ==
    IF n \in Keys(b) THEN SpecOf(b, n)
    ELSE IF n \in Keys(h) THEN SpecOf(h, n) ELSE SpecOf(r, n)

\* C2 (kind precedence): all_dependencies(p) has exactly one entry per name
\* of dependencies(p, Run), (p, Host) and (p, Build); its constraint is the
\* one of the highest-precedence kind holding the name (Build over Host over
\* Run); its position is that of its first insertion in the order Run, Host,
\* Build.  A Run dependency of the default Target that is a Host dependency
\* of p's override has one entry, with the Host constraint unless a Build
\* map holds the name too.
C2_KindPrecedence ==
    ret.op = "all_dependencies" =>
        LET r == Dependencies(ret.platform, Run)
            h == Dependencies(ret.platform, Host)
            b == Dependencies(ret.platform, Build)
            v == ret.value
        IN  /\ Keys(v) = Keys(r) \cup Keys(h) \cup Keys(b)
            /\ \A n \in Keys(v) :
                /\ CountOfName(v, n) = 1
                /\ SpecOf(v, n) = WinningSpec(r, h, b, n)
            /\ NamesOf(v) = NamesOf(r) \o NamesOf(Without(h, Keys(r)))
                            \o NamesOf(Without(b, Keys(r) \cup Keys(h)))
            /\ ret.platform \in DOMAIN Overrides =>
                \A n \in Keys(KindEntries(DefaultTarget, Run))
                         \cap Keys(KindEntries(Overrides[ret.platform], Host)) :
                    n \notin Keys(b) =>
                        /\ CountOfName(v, n) = 1
                        /\ SpecOf(v, n) =
                             SpecOf(KindEntries(Overrides[ret.platform], Host), n)

\* C2's case: a Run dependency of the default Target is a Host dependency of
\* the platform's override, with another constraint.
C2_Witness ==
    /\ ret.op = "all_dependencies"
    /\ ret.platform \in DOMAIN Overrides
    /\ \E n \in Keys(KindEntries(DefaultTarget, Run))
                \cap Keys(KindEntries(Overrides[ret.platform], Host)) :
          /\ SpecOf(KindEntries(DefaultTarget, Run), n)
                # SpecOf(KindEntries(Overrides[ret.platform], Host), n)
          /\ n \notin Keys(Dependencies(ret.platform, Build))
          /\ Len(ret.value) = 2
          /\ ret.value[1].name = n


(***************************************************************************)
(* Properties of the task registry.                                        *)
(***************************************************************************)
\* The task table of the override Target the platform option selects, and
\* of the default Target.
OverrideTasksFor(platform) ==
    IF IsSome(platform) /\ Unwrap(platform) \in DOMAIN Overrides
    THEN TasksOf(Overrides[Unwrap(platform)])
    ELSE NoTasks
DefaultTasks == TasksOf(DefaultTarget)

\* C3 (task override is total replacement): tasks(p)[t] is the definition of
\* p's override Target when that Target defines t, depends_on list included,
\* and the default Target's definition otherwise; the keys of tasks(p) are
\* the task names of p's override and of the default; no definition of
\* another platform's override appears.
C3_TaskOverrideReplaces ==
    ret.op = "tasks" =>
        LET o == OverrideTasksFor(ret.platform)
            d == DefaultTasks
            v == ret.value
        IN  /\ DOMAIN v = DOMAIN o \cup DOMAIN d
            /\ \A t \in DOMAIN v :
                 IF t \in DOMAIN o
                 THEN v[t] = o[t] /\ v[t].depends_on = o[t].depends_on
                 ELSE v[t] = d[t]

\* C3's case: the platform's override redefines a task of the default, both
\* with a dependency list and the two lists different.
C3_Witness ==
    /\ ret.op = "tasks"
    /\ IsSome(ret.platform)
    /\ LET o == OverrideTasksFor(ret.platform)
           d == DefaultTasks
       IN  /\ \E t \in DOMAIN o \cap DOMAIN d :
                /\ o[t].depends_on # d[t].depends_on
                /\ d[t].depends_on # <<>>
                /\ o[t].depends_on # <<>>
                /\ ret.value[t].depends_on = o[t].depends_on

\* The task map resolved for the host platform, from the manifest's tables.
HostTasks ==
    LET o == OverrideTasksFor(Some(current))
    IN  [t \in DOMAIN o \cup DOMAIN DefaultTasks |->
            IF t \in DOMAIN o THEN o[t] ELSE DefaultTasks[t]]

\* C5 (reverse-dependency query): task_names_depending_on(name) is empty
\* when name is no key of the task map resolved for the host platform, and
\* otherwise holds exactly the names t # name of that map whose depends_on
\* contains name, each once; name itself is never in it.
C5_ReverseDependencies ==
    ret.op = "task_names_depending_on" =>
        LET v == ret.value
        IN  /\ ret.name \notin DOMAIN HostTasks => v = <<>>
            /\ ret.name \in DOMAIN HostTasks =>
                 Range(v) = {t \in DOMAIN HostTasks \ {ret.name} :
                                ret.name \in Range(HostTasks[t].depends_on)}
            /\ Len(v) = Cardinality(Range(v))
            /\ ret.name \notin Range(v)

\* C5's case: the task asked about lists itself as a dependency and another
\* task depends on it.
C5_Witness ==
    /\ ret.op = "task_names_depending_on"
    /\ ret.name \in DOMAIN HostTasks
    /\ ret.name \in Range(HostTasks[ret.name].depends_on)
    /\ Len(ret.value) = 1
    /\ ret.value[1] # ret.name


(***************************************************************************)
(* Properties of the activation resolver.                                  *)
(***************************************************************************)
HasOverrideBlock(p) ==
    p \in DOMAIN Overrides /\ IsSome(Overrides[p].activation)

\* The declared scripts of the block the resolver order [override for p,
\* default] selects: the first Target with an activation block.
SelectedScripts(p) ==
    IF HasOverrideBlock(p) THEN ScriptsOf(Unwrap(Overrides[p].activation))
    ELSE IF IsSome(DefaultTarget.activation)
         THEN ScriptsOf(Unwrap(DefaultTarget.activation))
         ELSE <<>>

JoinedPaths(scripts) == {Join(root, scripts[i]) : i \in 1..Len(scripts)}

\* C4 (activation no-merge): activation_scripts(p) takes its scripts from
\* one Target, the first of [override for p, default] with an activation
\* block: the paths returned are the existing ones of that block.  When p's
\* override has a block, every path returned is resolved from a script that
\* block declares, so a script only the default declares is never returned,
\* also when that leaves the result empty.
C4_ActivationNoMerge ==
    ret.op = "activation_scripts" =>
        LET p == ret.platform
            v == ret.result.value
        IN  /\ Range(v) = JoinedPaths(SelectedScripts(p)) \cap fsPaths
            /\ HasOverrideBlock(p) =>
                 /\ Range(v) \subseteq
                      JoinedPaths(ScriptsOf(Unwrap(Overrides[p].activation)))
                 /\ JoinedPaths(ScriptsOf(Unwrap(Overrides[p].activation)))
                      \cap fsPaths = {} => v = <<>>
            /\ (~HasOverrideBlock(p) /\ IsSome(DefaultTarget.activation)) =>
                 Range(v) = JoinedPaths(ScriptsOf(Unwrap(DefaultTarget.activation)))
                            \cap fsPaths

\* C4's case: the override's block declares one script, which is missing,
\* the default's block declares two, which exist, and nothing is returned.
C4_Witness ==
    /\ ret.op = "activation_scripts"
    /\ HasOverrideBlock(ret.platform)
    /\ Len(ScriptsOf(Unwrap(Overrides[ret.platform].activation))) = 1
    /\ IsSome(DefaultTarget.activation)
    /\ Len(ScriptsOf(Unwrap(DefaultTarget.activation))) = 2
    /\ JoinedPaths(ScriptsOf(Unwrap(DefaultTarget.activation))) \subseteq fsPaths
    /\ Cardinality(JoinedPaths(ScriptsOf(Unwrap(DefaultTarget.activation)))) = 2
    /\ ret.result.value = <<>>

\* The subsequence of the joined paths of `scripts` that exist.
RECURSIVE ExistingPaths(_)
ExistingPaths(scripts) ==
    IF scripts = <<>> THEN <<>>
    ELSE (IF Join(root, Head(scripts)) \in fsPaths
          THEN <<Join(root, Head(scripts))>> ELSE <<>>)
         \o ExistingPaths(Tail(scripts))

\* C9 (missing activation scripts are non-fatal): activation_scripts(p) is
\* Ok on every platform and filesystem; the list returned is the
\* subsequence, in declared order, of the selected block's scripts joined to
\* the root whose path exists; a declared script whose path does not exist
\* is not in it.
C9_MissingScriptsNonFatal ==
    ret.op = "activation_scripts" =>
        /\ ret.result.ok
        /\ ret.result.value = ExistingPaths(SelectedScripts(ret.platform))
        /\ \A path \in JoinedPaths(SelectedScripts(ret.platform)) \ fsPaths :
              path \notin Range(ret.result.value)

\* C9's case: of two declared scripts the first is missing and the second
\* exists.
C9_Witness ==
    /\ ret.op = "activation_scripts"
    /\ Len(SelectedScripts(ret.platform)) = 2
    /\ Join(root, SelectedScripts(ret.platform)[1]) \notin fsPaths
    /\ Join(root, SelectedScripts(ret.platform)[2]) \in fsPaths
    /\ root # EmptyRoot
    /\ ret.result.ok
    /\ Len(ret.result.value) = 1


(***************************************************************************)
(* Properties of the package database cell.                                *)
(***************************************************************************)
ReturnedOk(t) == pc[t] = "done" /\ IsSome(result[t]) /\ Unwrap(result[t]).ok
ReturnedErr(t) == pc[t] = "done" /\ IsSome(result[t]) /\ ~Unwrap(result[t]).ok

\* C6 (initialize once under concurrent first access): whatever the
\* interleaving of the threads calling pypi_package_db(), every call that
\* returns Ok returns the handle the cell holds; while the cell holds a
\* handle no initializer runs; and a handle, once stored, is never replaced,
\* so at most one initialization result is ever stored.
C6_InitializeOnce ==
    /\ [](\A t \in Threads :
            ReturnedOk(t) => slot = Some(Unwrap(result[t]).handle))
    /\ [](slot # None => \A t \in Threads : pc[t] # "running")
    /\ [][slot # None => slot' = slot]_vars

\* C6's case: two threads were served the handle while a third, which found
\* the cell empty on entry, has yet to look at it again.
C6_Witness ==
    /\ slot # None
    /\ \E t1, t2, t3 \in Threads :
          /\ t1 # t2
          /\ ReturnedOk(t1) /\ ReturnedOk(t2)
          /\ Unwrap(result[t1]).handle = Unwrap(result[t2]).handle
          /\ pc[t3] \in {"initialize", "waiting"}

\* C7 (an initialization failure is not cached): the step in which an
\* initializer fails hands the error to the thread that ran it and leaves
\* the cell without a value and INCOMPLETE; a thread that then finds the
\* cell INCOMPLETE runs its own initializer; the cell is never in a state
\* other than INCOMPLETE, RUNNING or COMPLETE.
C7_FailureNotCached ==
    /\ [][failures' # failures =>
            \E t \in Threads :
                /\ pc[t] = "running"
                /\ ReturnedErr(t)'
                /\ \A u \in Threads \ {t} : result'[u] = result[u]
                /\ slot' = None
                /\ queue' = "INCOMPLETE"]_vars
    /\ [][\A t \in Threads :
            (pc[t] = "initialize" /\ queue = "INCOMPLETE" /\ pc'[t] # pc[t])
                => pc'[t] = "running"]_vars
    /\ [](queue \in {"INCOMPLETE", "RUNNING", "COMPLETE"})

\* C7's case: an initializer failed, its caller holds the error, and a later
\* run has stored a handle that another caller was given.
C7_Witness ==
    /\ failures > 0
    /\ slot # None
    /\ \E t, u \in Threads :
          /\ ReturnedErr(t)
          /\ ReturnedOk(u)


(***************************************************************************)
(* Properties of discovery.                                                *)
(***************************************************************************)
\* The working directory and its parents up to the filesystem root.
Chain ==
    IF IsSome(cwd)
    THEN {SubSeq(Unwrap(cwd), 1, k) : k \in 1..Len(Unwrap(cwd))}
    ELSE {}

\* The directories of the chain that hold a file under the manifest's name.
ManifestDirs == {d \in Chain : entries[d] \in {"file", "link"}}

\* The deepest of them.
NearestManifestDir ==
    CHOOSE d \in ManifestDirs : \A e \in ManifestDirs : Len(e) <= Len(d)

\* C10 (discovery returns the nearest manifest): find_project_root() is the
\* deepest directory, among the working directory and its parents, that
\* holds a file with the manifest's name, and None when there is none;
\* discover() loads the manifest of that directory and no other, and fails
\* when no directory of the chain holds the manifest.
C10_NearestManifest ==
    /\ ret.op = "find_project_root" =>
         ret.value = (IF ManifestDirs = {} THEN None
                      ELSE Some(NearestManifestDir))
    /\ ret.op = "discover" =>
         /\ ManifestDirs = {} => ~ret.result.ok
         /\ ret.result.ok =>
              ret.result.manifest_path =
                 NearestManifestDir \o <<PROJECT_MANIFEST>>

\* C10's case: the working directory holds a directory under the manifest's
\* name, its parent holds the manifest, and so does a directory further up.
C10_Witness ==
    /\ ret.op = "discover"
    /\ ret.result.ok
    /\ IsSome(cwd)
    /\ entries[Unwrap(cwd)] = "directory"
    /\ Cardinality(ManifestDirs) >= 2
    /\ Len(NearestManifestDir) = Len(Unwrap(cwd)) - 1


(***************************************************************************)
(* Properties of the package database handle across Project instances.     *)
(***************************************************************************)
Holds(i) == instances[i].slot # None

\* The step initializes instance i's cell.
Initializes(i) == ~Holds(i) /\ Holds(i)'

\* Initializing one Project's cell leaves every other Project's cell as it
\* was.
InitializingIsLocal ==
    \A i \in DOMAIN instances :
        Initializes(i) =>
            \A j \in DOMAIN instances \ {i} : instances'[j] = instances[j]

\* C11 as stated: two distinct Project instances, however obtained, never
\* hold the same handle, and initializing one never initializes the other.
C11_HandlePerInstance ==
    /\ [](\A i, j \in DOMAIN instances :
            (i # j /\ Holds(i) /\ Holds(j)) =>
                instances[i].slot # instances[j].slot)
    /\ [][InitializingIsLocal]_vars

\* C11, amended: two distinct Project instances hold the same handle only
\* when one of them got its value by Clone from a Project whose handle was
\* already initialized; a Project from from_manifest or load, or cloned
\* before initialization, gets a handle of its own when it initializes; and
\* initializing one Project's cell never initializes another's.
C11_HandlePerInstanceUnlessCloned ==
    /\ [](\A i, j \in DOMAIN instances :
            (i # j /\ Holds(i) /\ Holds(j)
                /\ instances[i].slot = instances[j].slot) =>
                (instances[i].inherited \/ instances[j].inherited))
    /\ [](\A i \in DOMAIN instances :
            instances[i].inherited => instances[i].origin = "clone")
    /\ [][InitializingIsLocal]_vars

\* C11's case: a Project initialized its handle, a clone taken afterwards
\* holds the same handle, and a clone taken before initialization has
\* initialized a handle of its own.
C11_Witness ==
    \E i, j, k \in DOMAIN instances :
        /\ Holds(i) /\ ~instances[i].inherited
        /\ instances[k].inherited
        /\ instances[k].slot = instances[i].slot
        /\ instances[j].origin = "clone"
        /\ ~instances[j].inherited
        /\ Holds(j)
        /\ instances[j].slot # instances[i].slot

====
